---- MODULE Spec2Model ----
(***************************************************************************)
(* Model of homeassistant/__main__.py: the process supervisor that boots,  *)
(* daemonizes and restart-cycles Home Assistant.                           *)
(*                                                                         *)
(* The state is the host (operating system family, process table, the      *)
(* configuration directory, the PID file, the fault log) and, per process, *)
(* the position in main() or in a function of the module that is called    *)
(* directly.  A behaviour is either a set of launches of main()            *)
(* (harness = "main") or one process that calls the module's functions     *)
(* directly, the way the unit tests of the module do (harness = "unit").   *)
(***************************************************************************)
EXTENDS Integers, Sequences, FiniteSets, TLC

\* ------------------------------------------------------------ bounds
NPids == 3          \* size of the host's PID space
FirstPid == 9       \* smallest PID (the PID space spans one and two digits)
MaxLaunches == 1    \* launches of main() in one behaviour of Spec
MaxCalls == 2       \* direct calls made by the unit harness
MaxThreads == 2     \* threads listed by threading.enumerate()
MaxArgs == 3        \* arguments after argv[0] that cmdline() is given

\* ------------------------------------------------------------ constants
RESTART_EXIT_CODE == 100
REQUIRED_PYTHON_VER == <<3, 8, 0>>

PIDs == FirstPid..(FirstPid + NPids - 1)
NoFile == "<absent>"
\* the PID file: whether it exists and the characters it holds
AbsentFile == [exists |-> FALSE, text |-> <<>>]
FileWith(text) == [exists |-> TRUE, text |-> text]
None == "<None>"
Users == {"hass", "root"}
Versions == {<<2, 7, 18>>, <<3, 7, 9>>, <<3, 8, 0>>, <<3, 9, 1>>}
ExitCodes == {0, 1, RESTART_EXIT_CODE}      \* what runner.run may return
ScriptCodes == {0, 1}                       \* what scripts.run may return

\* ------------------------------------------------------------ pure helpers
DigitChars == <<"0", "1", "2", "3", "4", "5", "6", "7", "8", "9">>

\* str(pid): the decimal digits of a natural number
RECURSIVE Str(_)
Str(n) ==
    IF n < 10 THEN <<DigitChars[n + 1]>>
    ELSE Str(n \div 10) \o <<DigitChars[(n % 10) + 1]>>

IsDigit(c) == \E i \in 1..10 : DigitChars[i] = c
DigitVal(c) == (CHOOSE i \in 1..10 : DigitChars[i] = c) - 1

RECURSIVE IntVal(_)
IntVal(s) ==
    IF s = <<>> THEN 0
    ELSE 10 * IntVal(SubSeq(s, 1, Len(s) - 1)) + DigitVal(s[Len(s)])

\* int(file.readline()): the number; ValueError (ok = FALSE) for an empty line
\* or a line that holds a character that is no digit
ParseInt(s) ==
    IF s # <<>> /\ \A i \in 1..Len(s) : IsDigit(s[i])
    THEN [ok |-> TRUE, val |-> IntVal(s)]
    ELSE [ok |-> FALSE, val |-> 0]

\* a comparison that looks at the major version only
TupleLess_MajorOnly(a, b) == a[1] < b[1]

\* sys.version_info[:3] < REQUIRED_PYTHON_VER: tuples compare lexicographically
TupleLess(a, b) ==
    \/ a[1] < b[1]
    \/ a[1] = b[1] /\ a[2] < b[2]
    \/ a[1] = b[1] /\ a[2] = b[2] /\ a[3] < b[3]

\* ------------------------------------------------------------ state
VARIABLES
    harness,     \* "main": launches of main(); "unit": direct calls of functions
    posix,       \* os.name == "posix"
    isDefault,   \* config_dir == config_util.get_default_config_dir()
    cfgDir,      \* os.path.isdir(config_dir)
    libDir,      \* os.path.isdir(config_dir/deps)
    faultLog,    \* config_dir/home-assistant.log.fault: NoFile, "empty", "nonempty"
    pidFile,     \* the PID file: [exists, text], text a sequence of characters
    proc,        \* PID -> process record
    launches,    \* launches made so far
    budget       \* launches of main() the behaviour may make

vars == <<harness, posix, isDefault, cfgDir, libDir, faultLog, pidFile, proc,
          launches, budget>>

NoExit == [how |-> "running", status |-> -1]

\* the record of a PID that no process has
Fresh ==
    [pc |-> "free", mode |-> "none", user |-> "hass",
     ver |-> <<>>,           \* sys.version_info[:3] as validate_python compared it
     pid_file |-> FALSE,     \* args.pid_file is set
     daemon |-> FALSE,       \* args.daemon
     debug |-> FALSE,        \* args.debug
     script |-> FALSE,       \* args.script is not None
     conf |-> [made |-> FALSE, debug |-> FALSE],   \* runtime_conf
     out |-> <<>>,           \* lines printed to standard output
     err |-> <<>>,           \* lines written to standard error
     log |-> <<>>,           \* phases entered, in order
     exit |-> NoExit,        \* how the process ended and with which status
     sid |-> 0,              \* session id (0: the session of the launching shell)
     stdio |-> "tty",        \* where descriptors 0, 1, 2 point
     flushed |-> FALSE,      \* stdout and stderr were flushed
     io |-> <<>>,            \* what daemonize did to the standard streams, in order
     trap |-> FALSE,         \* faulthandler is enabled
     fh |-> "none",          \* the fault-log handle: none, open, closed
     pid |-> 0,              \* check_pid's local: the PID read from the file
     read |-> "none",        \* how check_pid's open and readline ended
     code |-> -1,            \* exit_code returned by runner.run (-1: none yet)
     ret |-> -1,             \* value main() returned (-1: none)
     nrun |-> 0,             \* calls of runner.run
     nthreads |-> -1,        \* check_threads' count (-1: not counted)
     threads |-> <<>>,       \* what threading.enumerate() listed for check_threads
     calls |-> 0,            \* direct calls made (unit harness)
     argv |-> <<>>,          \* sys.argv
     environ |-> [set |-> FALSE, val |-> <<>>],   \* os.environ["PYTHONPATH"]
     cmd |-> <<>>]           \* the list cmdline() returned

Live(p) == proc[p].pc \notin {"free", "exited"}
Hass(p) == proc[p].mode \in {"main", "unit"}

\* sys.exit(status) and the other ways a process ends; descriptors and the
\* trap die with the process, the record keeps them as main() left them
Terminate(pr, how, status) ==
    [pr EXCEPT !.pc = "exited", !.exit = [how |-> how, status |-> status]]

\* an exception nobody catches: the interpreter prints the traceback to
\* standard error and exits with status 1
Uncaught(pr, exc) ==
    Terminate([pr EXCEPT !.err = Append(@, "Traceback: " \o exc)], "exception", 1)

Say(pr, line) == [pr EXCEPT !.out = Append(@, line)]

\* a fatal path that prints nothing before it exits
FatalExit_Silent(pr, line) == Terminate(pr, "sys.exit", 1)

\* print(line); sys.exit(1): the way every fatal startup error ends
FatalExit(pr, line) == Terminate(Say(pr, line), "sys.exit", 1)

\* a phase is entered: the history grows, and what the record kept of the
\* values local to the call before (the version compared, the outcome of
\* reading the PID file) is dropped
Enter(pr, phase) == [pr EXCEPT !.log = Append(@, phase), !.ver = <<>>, !.read = "none"]

\* the PIDs a PID file found at the start may name: the first two of the
\* host, which are the PIDs the first processes of a behaviour get
LeftBehindPids == {FirstPid, FirstPid + 1}

InitBudget(b) ==
    /\ budget = b
    /\ harness \in {"main", "unit"}
    /\ posix \in BOOLEAN
    /\ isDefault \in BOOLEAN
    /\ cfgDir \in BOOLEAN
    /\ libDir \in (IF cfgDir THEN BOOLEAN ELSE {FALSE})
    /\ faultLog = NoFile
    /\ pidFile \in {AbsentFile, FileWith(<<"x">>)}
                   \cup {FileWith(Str(p)) : p \in LeftBehindPids}
    /\ proc = [p \in PIDs |-> Fresh]
    /\ launches = 0

Init == InitBudget(MaxLaunches)

\* the behaviours with one more launch: launches that overlap
InitRace == InitBudget(MaxLaunches + 1)

\* ------------------------------------------------------------ main()
\* the statement of main() that follows each call, lines 230-236 and 253:
\*   if args.pid_file: check_pid(...)
\*   if args.daemon:   daemonize()
\*   if args.pid_file: write_pid(...)
\*   ... open the fault log
AfterDaemonize(pr) == IF pr.pid_file THEN "write_pid" ELSE "fault_open"
AfterCheckPid(pr) == IF pr.daemon THEN "daemonize" ELSE AfterDaemonize(pr)
AfterEnsure(pr) == IF pr.pid_file THEN "check_pid" ELSE AfterCheckPid(pr)

\* a variant of main() that touches the PID file before the configuration
\* directory is bootstrapped
MainNext_PidFirst(fn, pr) ==
    CASE fn = "validate_python" -> "get_arguments"
      [] fn = "get_arguments" -> IF pr.pid_file THEN "check_pid" ELSE "ensure_config_path"
      [] fn = "check_pid" -> "ensure_config_path"
      [] fn = "ensure_config_path" -> AfterCheckPid(pr)
      [] fn = "daemonize" -> AfterDaemonize(pr)
      [] fn = "write_pid" -> "fault_open"
      [] OTHER -> "idle"

\* where main() continues when the call of fn returns
MainNext(fn, pr) ==
    CASE fn = "validate_python" -> "get_arguments"
      [] fn = "get_arguments" -> "ensure_config_path"
      [] fn = "ensure_config_path" -> AfterEnsure(pr)
      [] fn = "check_pid" -> AfterCheckPid(pr)
      [] fn = "daemonize" -> AfterDaemonize(pr)
      [] fn = "write_pid" -> "fault_open"
      [] OTHER -> "idle"

\* the position after fn returns: in main(), or back in the unit harness
Ret(pr, fn) == IF pr.mode = "main" THEN MainNext(fn, pr) ELSE "idle"

\* ------------------------------------------------------------ the host
\* "python -m homeassistant ...": a new process enters main(); in the unit
\* harness, the one test process starts
\* the PID the host gives the next process: the lowest one that no live
\* process has (a PID whose process has ended is given out again)
IsNextPid(p) == ~Live(p) /\ \A q \in PIDs : ~Live(q) => p <= q

Launch(p) ==
    /\ IsNextPid(p)
    /\ launches < (IF harness = "main" THEN budget ELSE 1)
    /\ launches' = launches + 1
    /\ proc' = [proc EXCEPT ![p] =
                 [Fresh EXCEPT !.pc = IF harness = "main" THEN "validate_python" ELSE "idle",
                               !.mode = harness]]
    /\ UNCHANGED <<harness, posix, isDefault, cfgDir, libDir, faultLog, pidFile, budget>>

\* the host starts the one process of the model that is no Home Assistant,
\* possibly as another user, while no Home Assistant process is alive:
\* before the first launch, or after an instance has ended, whose PID it is
\* then given; it outlives the behaviour
ForeignSpawn(p, u) ==
    /\ IsNextPid(p)
    /\ \A q \in PIDs : proc[q].mode # "foreign"
    /\ \A q \in PIDs : ~(Live(q) /\ Hass(q))
    /\ proc' = [proc EXCEPT ![p] = [Fresh EXCEPT !.pc = "foreign", !.mode = "foreign", !.user = u]]
    /\ UNCHANGED <<harness, posix, isDefault, cfgDir, libDir, faultLog, pidFile, launches, budget>>

\* the unit harness calls one of the module's functions; what the record
\* keeps of the locals of the call before is dropped
UnitFunctions == {"ensure_config_path", "check_pid", "write_pid", "daemonize", "check_threads"}

UnitCall(p, fn) ==
    /\ proc[p].pc = "idle"
    /\ proc[p].calls < MaxCalls
    /\ proc' = [proc EXCEPT ![p].pc = fn, ![p].calls = @ + 1, ![p].read = "none",
                             ![p].nthreads = -1, ![p].threads = <<>>]
    /\ UNCHANGED <<harness, posix, isDefault, cfgDir, libDir, faultLog, pidFile, launches, budget>>

\* ------------------------------------------------------------ validate_python
\* lines 15-22; the slice of sys.version_info lives as long as the call and is
\* kept in the record until main() makes its next call
ValidatePython(p) ==
    /\ proc[p].pc = "validate_python"
    /\ \E v \in Versions :
         LET pr == [Enter(proc[p], "validate_python") EXCEPT !.ver = v] IN
         proc' = [proc EXCEPT ![p] =
                    IF TupleLess(v, REQUIRED_PYTHON_VER)
                    THEN FatalExit(pr, "Home Assistant requires at least Python")
                    ELSE [pr EXCEPT !.pc = Ret(pr, "validate_python")]]
    /\ UNCHANGED <<harness, posix, isDefault, cfgDir, libDir, faultLog, pidFile, launches, budget>>

\* ------------------------------------------------------------ get_arguments
\* the command line: the flags the model follows
Argv == [debug : BOOLEAN, daemon : BOOLEAN, pid_file : BOOLEAN, script : BOOLEAN]

\* the parser has no --runner option (lines 64-120 add none), so reading
\* arguments.runner raises AttributeError
HasRunnerOption == FALSE

\* lines 117-126: "usage" is argparse rejecting --daemon where the option is
\* not registered; otherwise the value of `daemon` in the namespace
GetArgumentsOutcome(argv, isPosix) ==
    IF ~isPosix /\ argv.daemon THEN "usage"
    ELSE IF ~isPosix \/ argv.debug THEN "daemon=False"
    ELSE IF ~HasRunnerOption THEN "AttributeError"
    ELSE "daemon=given"

GetArguments(p) ==
    /\ proc[p].pc = "get_arguments"
    /\ \E argv \in Argv :
         LET pr == Enter(proc[p], "get_arguments")
             o == GetArgumentsOutcome(argv, posix)
             \* line 122: the namespace parse_args returns
             parsed == [pr EXCEPT !.pid_file = argv.pid_file, !.debug = argv.debug,
                                  !.script = argv.script, !.daemon = argv.daemon]
             \* lines 123-124
             ns == [parsed EXCEPT !.daemon = IF o = "daemon=given" THEN argv.daemon ELSE FALSE]
         IN proc' = [proc EXCEPT ![p] =
                CASE o = "usage" ->
                       Terminate([pr EXCEPT !.err = Append(@, "usage: unrecognized arguments")],
                                 "sys.exit", 2)
                  [] o = "AttributeError" -> Uncaught(parsed, "AttributeError")
                  [] OTHER ->
                       \* line 221: if args.script is not None
                       [ns EXCEPT !.pc = IF argv.script THEN "scripts_run"
                                         ELSE Ret(ns, "get_arguments")]]
    /\ UNCHANGED <<harness, posix, isDefault, cfgDir, libDir, faultLog, pidFile, launches, budget>>

\* line 225: return scripts.run(args.script)
ScriptsRun(p) ==
    /\ proc[p].pc = "scripts_run"
    /\ \E r \in ScriptCodes :
         proc' = [proc EXCEPT ![p] =
                    Terminate([Enter(@, "scripts.run") EXCEPT !.ret = r], "return", r)]
    /\ UNCHANGED <<harness, posix, isDefault, cfgDir, libDir, faultLog, pidFile, launches, budget>>

\* ------------------------------------------------------------ ensure_config_path
\* A variant that creates the missing directory whether or not it is the default
EnsureConfigResult_AlwaysCreate(dirExists, libExists, default, okDir, okLib) ==
    IF ~dirExists /\ ~okDir
    THEN [dir |-> FALSE, lib |-> FALSE,
          msg |-> "Fatal Error: Unable to create default configuration directory"]
    ELSE IF ~libExists /\ ~okLib
    THEN [dir |-> TRUE, lib |-> FALSE,
          msg |-> "Fatal Error: Unable to create library directory"]
    ELSE [dir |-> TRUE, lib |-> TRUE, msg |-> None]

\* A variant that calls os.mkdir(lib_dir) without looking first: on a
\* directory that exists os.mkdir raises FileExistsError, an OSError
EnsureConfigResult_MkdirBlind(dirExists, libExists, default, okDir, okLib) ==
    IF ~dirExists /\ ~default
    THEN [dir |-> FALSE, lib |-> libExists,
          msg |-> "Fatal Error: Specified configuration directory does not exist"]
    ELSE IF ~dirExists /\ ~okDir
    THEN [dir |-> FALSE, lib |-> libExists,
          msg |-> "Fatal Error: Unable to create default configuration directory"]
    ELSE IF libExists \/ ~okLib
    THEN [dir |-> TRUE, lib |-> libExists,
          msg |-> "Fatal Error: Unable to create library directory"]
    ELSE [dir |-> TRUE, lib |-> TRUE, msg |-> None]

\* the directories after the call and the fatal message printed (None when
\* the call returns); okDir, okLib say whether os.mkdir succeeds
EnsureConfigResult(dirExists, libExists, default, okDir, okLib) ==
    IF ~dirExists /\ ~default
    THEN [dir |-> FALSE, lib |-> libExists,
          msg |-> "Fatal Error: Specified configuration directory does not exist"]
    ELSE IF ~dirExists /\ ~okDir
    THEN [dir |-> FALSE, lib |-> libExists,
          msg |-> "Fatal Error: Unable to create default configuration directory"]
    ELSE IF ~libExists /\ ~okLib
    THEN [dir |-> TRUE, lib |-> FALSE,
          msg |-> "Fatal Error: Unable to create library directory"]
    ELSE [dir |-> TRUE, lib |-> TRUE, msg |-> None]

EnsureConfigPath(p) ==
    /\ proc[p].pc = "ensure_config_path"
    /\ \E okDir, okLib \in BOOLEAN :
         LET pr == Enter(proc[p], "ensure_config_path")
             r == EnsureConfigResult(cfgDir, libDir, isDefault, okDir, okLib)
         IN /\ cfgDir' = r.dir
            /\ libDir' = r.lib
            /\ proc' = [proc EXCEPT ![p] =
                          IF r.msg = None
                          THEN [pr EXCEPT !.pc = Ret(pr, "ensure_config_path")]
                          ELSE FatalExit(pr, r.msg)]
    /\ UNCHANGED <<harness, posix, isDefault, faultLog, pidFile, launches, budget>>

\* ------------------------------------------------------------ check_pid
\* os.kill(pid, 0) by `caller`: "ok" when the signal could be sent, ESRCH
\* when no such process exists, EPERM when the process exists and belongs to
\* another user; ESRCH and EPERM are both raised as OSError
KillProbe(target, caller) ==
    IF target \notin PIDs \/ ~Live(target) THEN "ESRCH"
    ELSE IF proc[target].user # proc[caller].user THEN "EPERM"
    ELSE "ok"

\* a check that never recognises its own PID
IsOwnPid_Never(n, p) == FALSE

\* line 164: pid == os.getpid()
IsOwnPid(n, p) == n = p

\* lines 157-158: how open(pid_file) and int(file.readline()) end; a file
\* that is missing or may not be read raises OSError
ReadOutcome(exists, readable, text) ==
    IF ~exists \/ ~readable THEN "OSError"
    ELSE IF ~ParseInt(text).ok THEN "ValueError"
    ELSE "ok"

\* a handler that treats a PID file it cannot read as fatal
OnReadError_Fatal(pr) == FatalExit(pr, "Fatal Error: Unable to read pid file")

\* lines 159-161: except OSError: return
OnReadError(pr) == [pr EXCEPT !.pc = Ret(pr, "check_pid")]

\* lines 156-165: open and read the file, compare with os.getpid()
CheckPidRead(p) ==
    /\ proc[p].pc = "check_pid"
    /\ \E readable \in BOOLEAN :
         LET o == ReadOutcome(pidFile.exists, readable, pidFile.text)
             pr == [Enter(proc[p], "check_pid") EXCEPT !.read = o]
             n == ParseInt(pidFile.text)
         IN proc' = [proc EXCEPT ![p] =
                IF o = "OSError" THEN OnReadError(pr)
                ELSE IF o = "ValueError" THEN Uncaught(pr, "ValueError")
                ELSE IF IsOwnPid(n.val, p) THEN [pr EXCEPT !.pc = Ret(pr, "check_pid")]
                ELSE [pr EXCEPT !.pc = "check_pid_probe", !.pid = n.val]]
    /\ UNCHANGED <<harness, posix, isDefault, cfgDir, libDir, faultLog, pidFile, launches, budget>>

\* lines 167-173: probe the PID that was read
CheckPidProbe(p) ==
    /\ proc[p].pc = "check_pid_probe"
    /\ LET pr == proc[p] IN
       proc' = [proc EXCEPT ![p] =
                 IF KillProbe(pr.pid, p) = "ok"
                 THEN FatalExit(pr, "Fatal Error: Home Assistant is already running.")
                 ELSE [pr EXCEPT !.pc = Ret(pr, "check_pid")]]     \* except OSError: return
    /\ UNCHANGED <<harness, posix, isDefault, cfgDir, libDir, faultLog, pidFile, launches, budget>>

\* ------------------------------------------------------------ write_pid
\* a write_pid that removes the file it could not write
WrittenPidFile_UnlinkOnError(old, pid, outcome) ==
    IF outcome = "ok" THEN FileWith(Str(pid)) ELSE AbsentFile

\* the file after open(pid_file, "w") and file.write(str(pid)): the open may
\* fail and leave the file as it was; the write may fail after the open has
\* truncated the file
WrittenPidFile(old, pid, outcome) ==
    CASE outcome = "ok" -> FileWith(Str(pid))
      [] outcome = "open fails" -> old
      [] outcome = "write fails" -> FileWith(<<>>)

WritePid(p) ==
    /\ proc[p].pc = "write_pid"
    /\ \E outcome \in {"ok", "open fails", "write fails"} :
         LET pr == Enter(proc[p], "write_pid") IN
         /\ pidFile' = WrittenPidFile(pidFile, p, outcome)
         /\ proc' = [proc EXCEPT ![p] =
                       IF outcome = "ok"
                       THEN [pr EXCEPT !.pc = Ret(pr, "write_pid")]
                       ELSE FatalExit(pr, "Fatal Error: Unable to write pid file")]
    /\ UNCHANGED <<harness, posix, isDefault, cfgDir, libDir, faultLog, launches, budget>>

\* ------------------------------------------------------------ daemonize
\* os.fork() by p at position `at`: the child c continues at `next`, a copy
\* of p; the parent gets c > 0 and calls sys.exit(0).  Without a free PID
\* the fork raises OSError; where os has no fork it raises AttributeError.
Fork(p, at, next) ==
    /\ proc[p].pc = at
    /\ IF ~posix
       THEN proc' = [proc EXCEPT ![p] = Uncaught(Enter(@, at), "AttributeError")]
       ELSE IF \A c \in PIDs : Live(c)
       THEN proc' = [proc EXCEPT ![p] = Uncaught(Enter(@, at), "OSError")]
       ELSE \E c \in PIDs :
              /\ IsNextPid(c)
              /\ proc' = [proc EXCEPT
                            ![c] = [Enter(proc[p], at) EXCEPT !.pc = next],
                            ![p] = Terminate(Enter(@, at), "sys.exit", 0)]
    /\ UNCHANGED <<harness, posix, isDefault, cfgDir, libDir, faultLog, pidFile, launches, budget>>

DaemonizeFork1(p) == Fork(p, "daemonize", "setsid")

\* a first child that stays in the session of the caller
DaemonizeSetsid_Skip(p) ==
    /\ proc[p].pc = "setsid"
    /\ proc' = [proc EXCEPT ![p] = [Enter(@, "setsid") EXCEPT !.pc = "fork2"]]
    /\ UNCHANGED <<harness, posix, isDefault, cfgDir, libDir, faultLog, pidFile, launches, budget>>

\* os.setsid(): the first child becomes the leader of a new session
DaemonizeSetsid(p) ==
    /\ proc[p].pc = "setsid"
    /\ proc' = [proc EXCEPT ![p] = [Enter(@, "setsid") EXCEPT !.sid = p, !.pc = "fork2"]]
    /\ UNCHANGED <<harness, posix, isDefault, cfgDir, libDir, faultLog, pidFile, launches, budget>>

DaemonizeFork2(p) == Fork(p, "fork2", "redirect")

\* lines 144-150, statement by statement
RedirectOps ==
    <<[op |-> "open", on |-> "devnull r"], [op |-> "open", on |-> "devnull a+"],
      [op |-> "flush", on |-> "stdout"], [op |-> "flush", on |-> "stderr"],
      [op |-> "dup2", on |-> "stdin"], [op |-> "dup2", on |-> "stdout"],
      [op |-> "dup2", on |-> "stderr"]>>

\* lines 144-150: flush, then point descriptors 0, 1, 2 at os.devnull
DaemonizeRedirect(p) ==
    /\ proc[p].pc = "redirect"
    /\ LET pr == Enter(proc[p], "redirect") IN
       proc' = [proc EXCEPT ![p] =
                 [pr EXCEPT !.flushed = TRUE, !.stdio = "null", !.io = RedirectOps,
                            !.pc = Ret(pr, "daemonize")]]
    /\ UNCHANGED <<harness, posix, isDefault, cfgDir, libDir, faultLog, pidFile, launches, budget>>

\* ------------------------------------------------------------ fault scope
\* lines 241-251: runner.RuntimeConfig(..., debug=args.debug, ...); of the
\* flags handed through, the model follows debug
RuntimeConfig(pr) == [made |-> TRUE, debug |-> pr.debug]

\* lines 241-254: runtime_conf is built, then open(fault_file_name, mode="a");
\* append mode creates the file when it is missing and keeps what it holds;
\* an OSError is not handled
FaultOpen(p) ==
    /\ proc[p].pc = "fault_open"
    /\ \E ok \in BOOLEAN :
         LET pr == [Enter(proc[p], "fault_open") EXCEPT !.conf = RuntimeConfig(proc[p])] IN
         IF ok
         THEN /\ faultLog' = IF faultLog = NoFile THEN "empty" ELSE faultLog
              /\ proc' = [proc EXCEPT ![p] = [pr EXCEPT !.fh = "open", !.pc = "run"]]
         ELSE /\ faultLog' = faultLog
              /\ proc' = [proc EXCEPT ![p] = Uncaught(pr, "OSError")]
    /\ UNCHANGED <<harness, posix, isDefault, cfgDir, libDir, pidFile, launches, budget>>

\* lines 255-256: faulthandler.enable(fault_file), then runner.run is called
RunnerRun(p) ==
    /\ proc[p].pc = "run"
    /\ LET pr == Enter(Enter(proc[p], "fault_enable"), "runner.run") IN
       proc' = [proc EXCEPT ![p] =
                  [pr EXCEPT !.trap = TRUE, !.nrun = pr.nrun + 1, !.pc = "running"]]
    /\ UNCHANGED <<harness, posix, isDefault, cfgDir, libDir, faultLog, pidFile, launches, budget>>

\* line 257 and the end of the with block, when the runtime returned:
\* faulthandler.disable(), then __exit__ closes the file
ScopeExitOnReturn(pr) == [pr EXCEPT !.trap = FALSE, !.fh = "closed"]

\* the end of the with block when the runtime raised: __exit__ closes the
\* file; line 257 is skipped, so the trap stays enabled
ScopeExitOnError(pr) == [pr EXCEPT !.fh = "closed"]

\* the runtime returns exit code c; lines 256-257 and the end of the block
RunnerReturn(p, c) ==
    /\ proc[p].pc = "running"
    /\ LET pr == Enter([proc[p] EXCEPT !.code = c], "fault_disable") IN
       proc' = [proc EXCEPT ![p] = [ScopeExitOnReturn(pr) EXCEPT !.pc = "fault_cleanup"]]
    /\ UNCHANGED <<harness, posix, isDefault, cfgDir, libDir, faultLog, pidFile, launches, budget>>

\* the runtime raises: the exception leaves the with block and then main()
RunnerRaise(p) ==
    /\ proc[p].pc = "running"
    /\ proc' = [proc EXCEPT ![p] =
                 Uncaught(ScopeExitOnError(Enter(@, "runner.raise")), "RuntimeError")]
    /\ UNCHANGED <<harness, posix, isDefault, cfgDir, libDir, faultLog, pidFile, launches, budget>>

\* a fatal signal (SIGSEGV, ...) during the run: the enabled trap dumps the
\* tracebacks into the fault log and the signal kills the process
RunnerFault(p) ==
    /\ proc[p].pc = "running"
    /\ faultLog' = IF proc[p].trap THEN "nonempty" ELSE faultLog
    /\ proc' = [proc EXCEPT ![p] = Terminate(Enter(@, "fault"), "signal", 139)]
    /\ UNCHANGED <<harness, posix, isDefault, cfgDir, libDir, pidFile, launches, budget>>

\* a variant in which lingering threads turn the restart into a failure
MainResult_ThreadsFail(pr) == IF pr.nthreads > 1 THEN 1 ELSE pr.code

\* line 265 and line 269: return exit_code; sys.exit(main())
MainResult(pr) == pr.code

\* the list of threads is gone with check_threads' frame
MainReturn(pr) ==
    Terminate([Enter(pr, "return") EXCEPT !.ret = MainResult(pr), !.threads = <<>>],
              "return", MainResult(pr))

\* lines 259-260: the fault log after
\*   if os.path.getsize(fault_file_name) == 0: os.remove(fault_file_name)
CleanedFaultLog(f) == IF f = "empty" THEN NoFile ELSE f

\* lines 259-265; a fault log that another run has removed meanwhile makes
\* os.path.getsize raise OSError, which is not handled
FaultCleanup(p) ==
    /\ proc[p].pc = "fault_cleanup"
    /\ LET pr == Enter(proc[p], "fault_cleanup") IN
       IF faultLog = NoFile
       THEN /\ faultLog' = faultLog
            /\ proc' = [proc EXCEPT ![p] = Uncaught(pr, "OSError")]
       ELSE /\ faultLog' = CleanedFaultLog(faultLog)
            /\ proc' = [proc EXCEPT ![p] =
                          IF pr.code = RESTART_EXIT_CODE
                          THEN [pr EXCEPT !.pc = "check_threads"]
                          ELSE MainReturn(pr)]
    /\ UNCHANGED <<harness, posix, isDefault, cfgDir, libDir, pidFile, launches, budget>>

\* ------------------------------------------------------------ check_threads
\* threading.enumerate(): the main thread and up to MaxThreads - 1 others
Threads == [alive : BOOLEAN, daemon : BOOLEAN]
MainThread == [alive |-> TRUE, daemon |-> FALSE]
ThreadLists ==
    UNION {{<<MainThread>> \o t : t \in [1..n -> Threads]} : n \in 0..(MaxThreads - 1)}

\* a count of every thread listed
CountNonDaemon_All(ts) == Len(ts)

\* sum(thread.is_alive() and not thread.daemon for thread in ...)
RECURSIVE CountNonDaemon(_)
CountNonDaemon(ts) ==
    IF ts = <<>> THEN 0
    ELSE (IF Head(ts).alive /\ ~Head(ts).daemon THEN 1 ELSE 0) + CountNonDaemon(Tail(ts))

\* lines 205-206: the line written to standard error, if any
ThreadReport(n) ==
    IF n > 1 THEN <<"Found " \o DigitChars[n + 1] \o " non-daemonic threads.">> ELSE <<>>

\* the counts threading.enumerate() can give rise to
ThreadCounts == {CountNonDaemon(ts) : ts \in ThreadLists}

\* check_threads when the threads were counted (lines 202-206)
Counted(pr, ts) ==
    [pr EXCEPT !.threads = ts, !.nthreads = CountNonDaemon(ts),
               !.err = @ \o ThreadReport(CountNonDaemon(ts))]

\* a check_threads without the handler of lines 211-212: the AssertionError
\* leaves the function and main()
CheckThreads_AssertionEscapes(p) ==
    /\ proc[p].pc = "check_threads"
    /\ LET pr == Enter(proc[p], "check_threads") IN
       \/ \E ts \in ThreadLists :
            proc' = [proc EXCEPT ![p] =
                       IF pr.mode = "main" THEN MainReturn(Counted(pr, ts))
                       ELSE [Counted(pr, ts) EXCEPT !.pc = "idle"]]
       \/ proc' = [proc EXCEPT ![p] = Uncaught(pr, "AssertionError")]
    /\ UNCHANGED <<harness, posix, isDefault, cfgDir, libDir, faultLog, pidFile, launches, budget>>

\* lines 199-212: either the threads that threading.enumerate() lists are
\* counted, or the threading module raises AssertionError while they are
\* and lines 211-212 report that.  In main() the call is the last statement
\* before the return (lines 262-265).
CheckThreads(p) ==
    /\ proc[p].pc = "check_threads"
    /\ LET pr == Enter(proc[p], "check_threads")
           failed == [pr EXCEPT !.err = Append(@, "Failed to count non-daemonic threads.")]
       IN
       \/ \E ts \in ThreadLists :
            proc' = [proc EXCEPT ![p] =
                       IF pr.mode = "main" THEN MainReturn(Counted(pr, ts))
                       ELSE [Counted(pr, ts) EXCEPT !.pc = "idle"]]
       \/ proc' = [proc EXCEPT ![p] =
                     IF pr.mode = "main" THEN MainReturn(failed)
                     ELSE [failed EXCEPT !.pc = "idle"]]
    /\ UNCHANGED <<harness, posix, isDefault, cfgDir, libDir, faultLog, pidFile, launches, budget>>

\* ------------------------------------------------------------ cmdline
\* A token of a command line is a string; the model writes it as the sequence
\* of its parts between path separators, so that "--daemon" is <<"--daemon">>
\* and "/srv/homeassistant/__main__.py" is <<"srv", "homeassistant",
\* "__main__.py">>.
Tok(s) == <<s>>
Executable == <<"usr", "bin", "python3">>                          \* sys.executable
Programs ==
    {<<"usr", "bin", "hass">>, <<"srv", "homeassistant", "__main__.py">>,
     <<"homeassistant", "__main__.py">>}
ArgTokens == {Tok("--daemon"), Tok("--debug"), Tok("--pid-file")}
SysArgvs ==
    {<<prog>> \o args : prog \in Programs,
                        args \in UNION {[1..n -> ArgTokens] : n \in 0..MaxArgs}}

\* os.path.basename and os.path.dirname
Basename(path) == IF path = <<>> THEN "" ELSE path[Len(path)]
Dirname(path) == IF path = <<>> THEN <<>> ELSE SubSeq(path, 1, Len(path) - 1)

\* [arg for arg in args if arg != "--daemon"]
RECURSIVE WithoutDaemon(_)
WithoutDaemon(args) ==
    IF args = <<>> THEN <<>>
    ELSE (IF Head(args) # Tok("--daemon") THEN <<Head(args)>> ELSE <<>>)
         \o WithoutDaemon(Tail(args))

\* a rebuild that hands the arguments of a module-style invocation on as they are
CmdlineResult_KeepsFlag(argv, env) ==
    IF Basename(argv[1]) = "__main__.py"
    THEN [cmd |-> <<Executable, Tok("-m"), Tok("homeassistant")>> \o Tail(argv),
          environ |-> [set |-> TRUE, val |-> Dirname(Dirname(argv[1]))]]
    ELSE [cmd |-> WithoutDaemon(argv), environ |-> env]

\* lines 189-196: the list returned and PYTHONPATH afterwards
CmdlineResult(argv, env) ==
    IF Basename(argv[1]) = "__main__.py"
    THEN [cmd |-> <<Executable, Tok("-m"), Tok("homeassistant")>>
                    \o WithoutDaemon(Tail(argv)),
          environ |-> [set |-> TRUE, val |-> Dirname(Dirname(argv[1]))]]
    ELSE [cmd |-> WithoutDaemon(argv), environ |-> env]

\* cmdline() is called by nothing in the module: the process is one that
\* was started with sys.argv and calls it once
Cmdline(p) ==
    /\ proc[p].pc = "cmdline"
    /\ LET r == CmdlineResult(proc[p].argv, proc[p].environ) IN
       proc' = [proc EXCEPT ![p] =
                  [Enter(@, "cmdline") EXCEPT !.cmd = r.cmd, !.environ = r.environ,
                                              !.pc = "idle"]]
    /\ UNCHANGED <<harness, posix, isDefault, cfgDir, libDir, faultLog, pidFile, launches, budget>>

InitCmdline ==
    /\ budget = 0
    /\ harness = "cmdline"
    /\ posix = TRUE
    /\ isDefault = TRUE
    /\ cfgDir = TRUE
    /\ libDir = TRUE
    /\ faultLog = NoFile
    /\ pidFile = AbsentFile
    /\ launches = 1
    /\ \E a \in SysArgvs :
         proc = [p \in PIDs |->
                   IF p = FirstPid
                   THEN [Fresh EXCEPT !.pc = "cmdline", !.mode = "unit", !.argv = a]
                   ELSE Fresh]

NextCmdline == \E p \in PIDs : Cmdline(p)

\* ------------------------------------------------------------ specification
Next ==
    \/ \E p \in PIDs : Launch(p)
    \/ \E p \in PIDs, u \in Users : ForeignSpawn(p, u)
    \/ \E p \in PIDs, fn \in UnitFunctions : UnitCall(p, fn)
    \/ \E p \in PIDs : ValidatePython(p)
    \/ \E p \in PIDs : GetArguments(p)
    \/ \E p \in PIDs : ScriptsRun(p)
    \/ \E p \in PIDs : EnsureConfigPath(p)
    \/ \E p \in PIDs : CheckPidRead(p)
    \/ \E p \in PIDs : CheckPidProbe(p)
    \/ \E p \in PIDs : DaemonizeFork1(p)
    \/ \E p \in PIDs : DaemonizeSetsid(p)
    \/ \E p \in PIDs : DaemonizeFork2(p)
    \/ \E p \in PIDs : DaemonizeRedirect(p)
    \/ \E p \in PIDs : WritePid(p)
    \/ \E p \in PIDs : FaultOpen(p)
    \/ \E p \in PIDs : RunnerRun(p)
    \/ \E p \in PIDs, c \in ExitCodes : RunnerReturn(p, c)
    \/ \E p \in PIDs : RunnerRaise(p)
    \/ \E p \in PIDs : RunnerFault(p)
    \/ \E p \in PIDs : FaultCleanup(p)
    \/ \E p \in PIDs : CheckThreads(p)

Spec == Init /\ [][Next]_vars

SpecRace == InitRace /\ [][Next]_vars

\* cmdline() alone, over the argument vectors
SpecCmdline == InitCmdline /\ [][NextCmdline]_vars

\* ============================================================ claims
InLog(pr, ph) == \E i \in 1..Len(pr.log) : pr.log[i] = ph
LastOf(q) == q[Len(q)]
MainProc(p) == proc[p].mode = "main"
LeftMain(p) == proc[p].pc = "exited" /\ proc[p].exit.how \in {"return", "exception", "sys.exit"}

\* the place of a phase in the order of startup; 13 is everything after the
\* runtime was called
PhaseRank(ph) ==
    CASE ph = "validate_python" -> 1
      [] ph = "get_arguments" -> 2
      [] ph = "ensure_config_path" -> 3
      [] ph = "check_pid" -> 4
      [] ph = "daemonize" -> 5
      [] ph = "setsid" -> 6
      [] ph = "fork2" -> 7
      [] ph = "redirect" -> 8
      [] ph = "write_pid" -> 9
      [] ph = "fault_open" -> 10
      [] ph = "fault_enable" -> 11
      [] ph = "runner.run" -> 12
      [] OTHER -> 13

\* C1: in every run of main() that reaches the runtime the startup phases
\* happened in the fixed order ensure_config_path, check_pid, daemonize,
\* write_pid, fault log opened, trap enabled, runner.run, each at most once;
\* the configuration directory was bootstrapped before any PID-file
\* operation; check_pid and write_pid ran when a PID file was given and
\* daemonize when args.daemon was set.
C1_StartupOrder ==
    \A p \in PIDs :
        MainProc(p) /\ InLog(proc[p], "runner.run") =>
            LET l == proc[p].log IN
            /\ \A i, j \in 1..Len(l) :
                 i < j => \/ PhaseRank(l[i]) < PhaseRank(l[j])
                          \/ PhaseRank(l[i]) = 13 /\ PhaseRank(l[j]) = 13
            /\ InLog(proc[p], "ensure_config_path")
            /\ InLog(proc[p], "fault_open")
            /\ InLog(proc[p], "fault_enable")
            /\ proc[p].pid_file <=> InLog(proc[p], "check_pid")
            /\ proc[p].pid_file <=> InLog(proc[p], "write_pid")
            /\ proc[p].daemon <=> InLog(proc[p], "daemonize")

C1_Witness ==
    \E p \in PIDs :
        /\ MainProc(p) /\ proc[p].pc = "running" /\ proc[p].pid_file
        /\ InLog(proc[p], "check_pid") /\ InLog(proc[p], "write_pid")

\* C2: at most one process at a time runs the runtime behind the Singleton
\* Guard of one PID file, whatever the interleaving of the launches.
C2_SingleInstance ==
    \A p, q \in PIDs :
        /\ MainProc(p) /\ proc[p].pid_file /\ proc[p].pc = "running"
        /\ MainProc(q) /\ proc[q].pid_file /\ proc[q].pc = "running"
        => p = q

\* C3: whenever control has left main() after the fault scope was entered
\* (by a return or by an exception of the runtime), the trap is disabled and
\* the fault-log handle is closed.
C3_ScopeReleased ==
    \A p \in PIDs :
        MainProc(p) /\ LeftMain(p) /\ proc[p].fh # "none" =>
            ~proc[p].trap /\ proc[p].fh = "closed"

\* C4: the probe of check_pid ends the process with the already-running
\* error and status 1 when the PID read from the file belongs to another
\* live process, and returns silently when no live process has that PID.
C4_ProbeDecides ==
    [][\A p \in PIDs :
          proc[p].pc = "check_pid_probe" /\ proc'[p].pc # "check_pid_probe" =>
              IF Live(proc[p].pid)
              THEN /\ proc'[p].pc = "exited"
                   /\ proc'[p].exit = [how |-> "sys.exit", status |-> 1]
                   /\ proc'[p].out =
                        Append(proc[p].out, "Fatal Error: Home Assistant is already running.")
              ELSE /\ proc'[p].pc # "exited"
                   /\ proc'[p].out = proc[p].out]_vars

\* C5: write_pid(path) by a process followed by check_pid(path) by the same
\* process returns normally: the PID read back is recognised as the
\* process's own, nothing is probed and the process does not exit.
C5_SelfRecognition ==
    \A p \in PIDs :
        LET l == proc[p].log IN
        /\ Hass(p)
        /\ Len(l) >= 2
        /\ l[Len(l)] = "check_pid"
        /\ l[Len(l) - 1] = "write_pid"
        => proc[p].pc \notin {"exited", "check_pid_probe"}

C5_Witness ==
    \E p \in PIDs :
        LET l == proc[p].log IN
        /\ Hass(p) /\ Len(l) >= 2
        /\ l[Len(l)] = "check_pid" /\ l[Len(l) - 1] = "write_pid"
        /\ pidFile = FileWith(Str(p))
        /\ proc[p].pc = "idle"

\* C6: whenever the runtime runs in a process that was given a PID file, the
\* file holds exactly the decimal PID of that process.
C6_PidFileNamesRunner ==
    \A p \in PIDs :
        MainProc(p) /\ proc[p].pid_file /\ proc[p].pc = "running" =>
            pidFile = FileWith(Str(p))

\* C7: main() calls runner.run at most once, and when main() returns after
\* the call it was called exactly once and the value returned, which is the
\* exit status of the process, is the exit code the runtime returned,
\* whatever the code and whatever the thread audit counted.
C7_ExitCodeUnchanged ==
    \A p \in PIDs :
        MainProc(p) =>
            /\ proc[p].nrun <= 1
            /\ proc[p].pc = "exited" /\ proc[p].exit.how = "return"
                 /\ InLog(proc[p], "runner.run") =>
                   /\ proc[p].nrun = 1
                   /\ proc[p].code \in ExitCodes
                   /\ proc[p].ret = proc[p].code
                   /\ proc[p].exit.status = proc[p].code

C7_Witness ==
    \E p \in PIDs :
        /\ MainProc(p) /\ proc[p].pc = "exited" /\ proc[p].exit.how = "return"
        /\ proc[p].code = RESTART_EXIT_CODE
        /\ proc[p].nthreads > 1
        /\ proc[p].ret = RESTART_EXIT_CODE

\* C8: once control has left main() with the fault scope closed, the fault
\* log exists if and only if it is not empty; and a run in which a fault was
\* dumped leaves the file present.
C8_FaultLogIffNonEmpty ==
    \A p \in PIDs :
        MainProc(p) =>
            /\ LeftMain(p) /\ proc[p].fh = "closed" => faultLog # "empty"
            /\ proc[p].pc = "exited" /\ proc[p].exit.how = "signal" => faultLog = "nonempty"

\* C9: ensure_config_path on a missing directory: a path that is not the
\* default ends the process with status 1 and creates neither the directory
\* nor deps; the default path gets the directory and deps created and the
\* call returns, unless os.mkdir fails, which is the fatal error of C10.
C9_MissingDirectory ==
    [][\A p \in PIDs :
          /\ proc[p].pc = "ensure_config_path"
          /\ proc'[p].pc # "ensure_config_path"
          /\ ~cfgDir
          => IF ~isDefault
             THEN /\ proc'[p].pc = "exited"
                  /\ proc'[p].exit = [how |-> "sys.exit", status |-> 1]
                  /\ ~cfgDir' /\ ~libDir'
             ELSE \/ /\ proc'[p].pc # "exited"
                     /\ proc'[p].pc = Ret(proc'[p], "ensure_config_path")
                     /\ cfgDir' /\ libDir'
                  \/ /\ proc'[p].pc = "exited"
                     /\ proc'[p].exit = [how |-> "sys.exit", status |-> 1]
                     /\ LastOf(proc'[p].out) \in
                          {"Fatal Error: Unable to create default configuration directory",
                           "Fatal Error: Unable to create library directory"}]_vars

C9_Witness ==
    \E p \in PIDs :
        /\ Hass(p) /\ proc[p].pc = "exited"
        /\ proc[p].out = <<"Fatal Error: Specified configuration directory does not exist">>
        /\ ~isDefault /\ ~cfgDir /\ ~libDir

\* the step of p in which a fatal condition that the state shows is met
MissingCustomDir(p) ==
    proc[p].pc = "ensure_config_path" /\ proc'[p].pc # "ensure_config_path"
    /\ ~cfgDir /\ ~isDefault

LiveInstanceFound(p) ==
    proc[p].pc = "check_pid_probe" /\ proc'[p].pc # "check_pid_probe"
    /\ KillProbe(proc[p].pid, p) = "ok"

\* the step of check_pid in which reading an existing PID file failed: the
\* file holds the PID of another process, yet nothing is probed
PidReadFailure(p) ==
    /\ proc[p].pc = "check_pid" /\ proc'[p].pc \notin {"check_pid", "check_pid_probe"}
    /\ pidFile.exists
    /\ ParseInt(pidFile.text).ok
    /\ ParseInt(pidFile.text).val # p

\* p ends in this step with one more line on standard output and status 1,
\* the runtime never called
FatalStop(p) ==
    /\ proc'[p].pc = "exited"
    /\ proc'[p].exit = [how |-> "sys.exit", status |-> 1]
    /\ Len(proc'[p].out) = Len(proc[p].out) + 1
    /\ proc'[p].nrun = 0

\* the phase each fatal diagnostic belongs to
FatalPhase(msg) ==
    CASE msg = "Home Assistant requires at least Python" -> "validate_python"
      [] msg = "Fatal Error: Specified configuration directory does not exist"
           -> "ensure_config_path"
      [] msg = "Fatal Error: Unable to create default configuration directory"
           -> "ensure_config_path"
      [] msg = "Fatal Error: Unable to create library directory" -> "ensure_config_path"
      [] msg = "Fatal Error: Home Assistant is already running." -> "check_pid"
      [] msg = "Fatal Error: Unable to write pid file" -> "write_pid"
      [] OTHER -> "none"

\* a process that ended by sys.exit(1) printed exactly one line, the
\* diagnostic of the phase it ended in, never called the runtime and, in
\* main(), entered no phase twice
FatalExitShape(pr) ==
    pr.pc = "exited" /\ pr.exit = [how |-> "sys.exit", status |-> 1] =>
        /\ Len(pr.out) = 1
        /\ FatalPhase(pr.out[1]) = LastOf(pr.log)
        /\ pr.nrun = 0
        /\ pr.mode = "main" =>
             \A i, j \in 1..Len(pr.log) : i < j => pr.log[i] # pr.log[j]

C11_UnreadableReturns ==
    \A p \in PIDs :
        /\ Hass(p) /\ proc[p].log # <<>>
        /\ LastOf(proc[p].log) = "check_pid"
        /\ proc[p].read = "OSError"
        => /\ proc[p].pc = Ret(proc[p], "check_pid")
           /\ proc[p].exit = NoExit
           /\ proc[p].out = <<>>

\* check_pid has returned in main() although the PID file exists and names a
\* live process: the file could not be read
C11_Witness ==
    \E p \in PIDs :
        /\ MainProc(p) /\ proc[p].read = "OSError"
        /\ pidFile.exists /\ ParseInt(pidFile.text).ok
        /\ KillProbe(ParseInt(pidFile.text).val, p) = "ok"
        /\ proc[p].pc = "write_pid"

\* how often a phase occurs in a history
RECURSIVE Count(_, _)
Count(l, ph) ==
    IF l = <<>> THEN 0 ELSE (IF Head(l) = ph THEN 1 ELSE 0) + Count(Tail(l), ph)

SessionLeader(p) == proc[p].sid = p
ExitedZero(pr) == pr.pc = "exited" /\ pr.exit = [how |-> "sys.exit", status |-> 0]
ForkRaised(pr) == pr.pc = "exited" /\ pr.exit.how = "exception"

\* C12: the double fork.  After the first fork the caller has exited with
\* status 0 and the first child goes on; the first child makes itself a
\* session leader and forks again; after the second fork the first child has
\* exited with status 0 and the second child, which is no session leader,
\* goes on; only the second child returns from daemonize(), with the three
\* standard streams on the null device, flushed before they were
\* redirected.  (A fork that raises ends the process that called it.)
C12_DoubleFork ==
    \A p \in PIDs :
        Hass(p) /\ proc[p].log # <<>> =>
            LET pr == proc[p]
                L == LastOf(pr.log)
            IN /\ L = "daemonize" =>
                     \/ pr.pc = "setsid" /\ pr.exit = NoExit
                     \/ ExitedZero(pr)
                     \/ ForkRaised(pr)
               /\ L = "setsid" => pr.pc = "fork2" /\ SessionLeader(p)
               /\ L = "fork2" =>
                     \/ pr.pc = "redirect" /\ ~SessionLeader(p) /\ pr.sid # 0
                     \/ ExitedZero(pr) /\ SessionLeader(p)
                     \/ ForkRaised(pr) /\ SessionLeader(p)
               /\ L = "redirect" =>
                     /\ \/ pr.pc = Ret(pr, "daemonize")
                        \/ pr.mode = "unit" /\ pr.pc \in UnitFunctions   \* the next call
                     /\ pr.exit = NoExit
                     /\ ~SessionLeader(p) /\ pr.sid # 0
                     /\ pr.stdio = "null"
                     /\ Len(pr.log) >= 4
                     /\ SubSeq(pr.log, Len(pr.log) - 3, Len(pr.log)) =
                          <<"daemonize", "setsid", "fork2", "redirect">>
               /\ Count(pr.log, "daemonize") = 1 /\ pr.stdio = "null" =>
                     /\ InLog(pr, "redirect")
                     /\ ~SessionLeader(p)
                     /\ \A i, j \in 1..Len(pr.io) :
                          pr.io[i].op = "flush" /\ pr.io[j].op = "dup2" => i < j
                     /\ {o.on : o \in {pr.io[i] : i \in 1..Len(pr.io)} \cap
                                      [op : {"dup2"}, on : {"stdin", "stdout", "stderr"}]}
                          = {"stdin", "stdout", "stderr"}
                     /\ \E i \in 1..Len(pr.io) : pr.io[i] = [op |-> "flush", on |-> "stdout"]
                     /\ \E i \in 1..Len(pr.io) : pr.io[i] = [op |-> "flush", on |-> "stderr"]

\* the second child has returned from daemonize(); the first child, the
\* leader of its session, has exited with status 0
C12_Witness ==
    \E p, q \in PIDs :
        /\ Hass(p) /\ proc[p].log # <<>> /\ LastOf(proc[p].log) = "redirect"
        /\ proc[p].pc = "idle" /\ proc[p].stdio = "null"
        /\ p # q /\ proc[p].sid = q
        /\ ExitedZero(proc[q]) /\ LastOf(proc[q].log) = "fork2"

\* a version triple as one number: the order of the triples is the order of
\* these numbers
VersionNumber(v) == v[1] * 10000 + v[2] * 100 + v[3]

\* the phases that read, create or write a directory, the PID file or the
\* fault log
FilesystemPhases ==
    {"ensure_config_path", "check_pid", "write_pid", "fault_open", "fault_enable",
     "runner.run", "fault_cleanup"}

\* C13: the version gate is the first thing main() does.  A version that is
\* at least the required one (as ordered triples) lets startup proceed to
\* argument parsing; a lower one ends the process with status 1 and one
\* line on standard output, and that process has entered no phase that
\* touches a directory, the PID file or the fault log.  Every phase that
\* touches the filesystem comes after the gate.
C13_VersionGateFirst ==
    \A p \in PIDs :
        MainProc(p) =>
            LET pr == proc[p] IN
            /\ pr.log # <<>> =>
                  /\ pr.log[1] = "validate_python"
                  /\ \A i \in 1..Len(pr.log) : pr.log[i] \in FilesystemPhases => i > 1
            /\ pr.ver # <<>> =>
                  IF VersionNumber(pr.ver) >= VersionNumber(REQUIRED_PYTHON_VER)
                  THEN pr.pc = "get_arguments" /\ pr.exit = NoExit /\ pr.out = <<>>
                  ELSE /\ pr.pc = "exited"
                       /\ pr.exit = [how |-> "sys.exit", status |-> 1]
                       /\ pr.out = <<"Home Assistant requires at least Python">>
                       /\ pr.log = <<"validate_python">>
                       /\ pr.fh = "none" /\ pr.nrun = 0

\* a launch under 3.7.9 was turned away, and nothing on disk has changed
C13_Witness ==
    \E p \in PIDs :
        /\ MainProc(p) /\ proc[p].ver = <<3, 7, 9>>
        /\ proc[p].pc = "exited" /\ proc[p].exit.status = 1
        /\ proc[p].log = <<"validate_python">>
        /\ faultLog = NoFile

NotDaemonFlag(t) == t # Tok("--daemon")

\* C14: the list cmdline() returns holds no "--daemon" and holds every other
\* argument in its original order.  When argv[0] is the package's
\* __main__.py the list is the interpreter, "-m", "homeassistant" and the
\* remaining arguments, and PYTHONPATH is the parent of the directory of
\* argv[0]; otherwise the list is argv without the flag and PYTHONPATH is
\* left alone.  The call starts no process and ends none.
C14_CmdlineRebuilt ==
    \A p \in PIDs :
        proc[p].cmd # <<>> =>
            LET a == proc[p].argv
                c == proc[p].cmd
            IN /\ \A i \in 1..Len(c) : c[i] # Tok("--daemon")
               /\ IF a[1][Len(a[1])] = "__main__.py"
                  THEN /\ c = <<Executable, Tok("-m"), Tok("homeassistant")>>
                              \o SelectSeq(Tail(a), NotDaemonFlag)
                       /\ proc[p].environ =
                            [set |-> TRUE, val |-> SubSeq(a[1], 1, Len(a[1]) - 2)]
                  ELSE /\ c = SelectSeq(a, NotDaemonFlag)
                       /\ ~proc[p].environ.set
               /\ proc[p].pc = "idle" /\ proc[p].exit = NoExit /\ proc[p].nrun = 0
               /\ \A q \in PIDs \ {p} : proc[q] = Fresh

\* a module-style invocation with the flag between two other arguments
C14_Witness ==
    \E p \in PIDs :
        /\ proc[p].argv = <<<<"srv", "homeassistant", "__main__.py">>,
                            Tok("--debug"), Tok("--daemon"), Tok("--pid-file")>>
        /\ proc[p].cmd = <<Executable, Tok("-m"), Tok("homeassistant"),
                           Tok("--debug"), Tok("--pid-file")>>
        /\ proc[p].environ = [set |-> TRUE, val |-> <<"srv">>]

\* main() was started with no flag at all and has parsed its arguments
NoFlags(pr) ==
    /\ pr.mode = "main" /\ InLog(pr, "get_arguments")
    /\ pr.exit # [how |-> "sys.exit", status |-> 2]      \* the parser accepted them
    /\ ~pr.debug /\ ~pr.daemon /\ ~pr.pid_file /\ ~pr.script

ParsingRaised(pr) ==
    pr.pc = "exited" /\ pr.exit.how = "exception" /\ LastOf(pr.log) = "get_arguments"

\* C15: a launch with no flags on the default configuration directory gets
\* past argument parsing; when it calls the runtime the directory and deps
\* exist and the RuntimeConfig carries the default flags; when the runtime
\* returned 0, main() returns 0 and no fault log is left.
C15_DefaultRun ==
    \A p \in PIDs :
        NoFlags(proc[p]) /\ isDefault =>
            /\ ~ParsingRaised(proc[p])
            /\ InLog(proc[p], "runner.run") =>
                  /\ cfgDir /\ libDir
                  /\ proc[p].conf = [made |-> TRUE, debug |-> FALSE]
            /\ proc[p].pc = "exited" /\ proc[p].exit.how = "return" /\ proc[p].code = 0 =>
                  /\ proc[p].exit.status = 0
                  /\ faultLog = NoFile

\* C20: argument parsing ends normally for every combination of flags the
\* parser accepts; the namespace it yields has daemon = False with --debug
\* or on a host that is not POSIX; and main() enters daemonize exactly when
\* the namespace has daemon = True, which takes a POSIX host and no --debug.
C20_DaemonField ==
    \A p \in PIDs :
        LET pr == proc[p] IN
        /\ MainProc(p) /\ InLog(pr, "get_arguments")
        /\ pr.exit # [how |-> "sys.exit", status |-> 2]
        => /\ ~(pr.pc = "exited" /\ pr.exit.how = "exception"
                   /\ pr.err = <<"Traceback: AttributeError">>)
           /\ InLog(pr, "ensure_config_path") /\ (~posix \/ pr.debug) => ~pr.daemon
           /\ InLog(pr, "daemonize") => pr.daemon /\ posix /\ ~pr.debug
           /\ InLog(pr, "write_pid") \/ InLog(pr, "fault_open") =>
                 (pr.daemon => InLog(pr, "daemonize"))

\* C16: check_threads never ends the process and never keeps main() from
\* returning: whatever the threads are and whether or not the threading
\* module raises AssertionError while they are counted, a main() that
\* called it returns the restart code, and a direct caller gets control
\* back; a count that failed is reported by the line "Failed to count
\* non-daemonic threads." on standard error.
C16_AuditNeverRaises ==
    \A p \in PIDs :
        LET pr == proc[p] IN
        /\ MainProc(p) /\ InLog(pr, "check_threads") =>
              /\ pr.pc = "exited"
              /\ pr.exit = [how |-> "return", status |-> RESTART_EXIT_CODE]
              /\ pr.ret = RESTART_EXIT_CODE
        /\ pr.mode = "unit" /\ pr.log # <<>> /\ LastOf(pr.log) = "check_threads" =>
              /\ pr.exit = NoExit
              /\ pr.pc \in {"idle"} \cup UnitFunctions
        /\ (/\ pr.nthreads = -1
            /\ \/ pr.mode = "main" /\ InLog(pr, "check_threads")
               \/ /\ pr.mode = "unit" /\ pr.pc = "idle" /\ pr.log # <<>>
                  /\ LastOf(pr.log) = "check_threads")
           => /\ pr.err # <<>>
              /\ LastOf(pr.err) = "Failed to count non-daemonic threads."

\* the count failed in main() after a restart was requested, and main()
\* returned the restart code all the same
C16_Witness ==
    \E p \in PIDs :
        /\ MainProc(p) /\ InLog(proc[p], "check_threads") /\ proc[p].nthreads = -1
        /\ proc[p].err = <<"Failed to count non-daemonic threads.">>
        /\ proc[p].exit = [how |-> "return", status |-> RESTART_EXIT_CODE]

\* the threads of a list that are alive and no daemon threads
AliveNonDaemon(ts) == {i \in 1..Len(ts) : ts[i].alive /\ ~ts[i].daemon}

\* C17: the number check_threads counts is the number of listed threads that
\* are alive and not daemon threads; the line "Found n non-daemonic threads."
\* is written to standard error if and only if that number is greater than
\* one; and main() calls check_threads only after the runtime has returned
\* the restart code.
C17_CountAndReport ==
    \A p \in PIDs :
        LET pr == proc[p]
            n == Cardinality(AliveNonDaemon(pr.threads))
            line(k) == "Found " \o DigitChars[k + 1] \o " non-daemonic threads."
        IN /\ Hass(p) /\ pr.threads # <<>> /\ pr.nthreads # -1 =>
                 /\ pr.nthreads = n
                 /\ n > 1 => pr.err # <<>> /\ LastOf(pr.err) = line(n)
                 /\ n <= 1 /\ pr.calls = 1 => pr.err = <<>>
           /\ MainProc(p) /\ InLog(pr, "check_threads") =>
                 /\ pr.code = RESTART_EXIT_CODE
                 /\ \E i, j \in 1..Len(pr.log) :
                      i < j /\ pr.log[i] = "fault_disable" /\ pr.log[j] = "check_threads"
                 /\ pr.nthreads > 1 => pr.err = <<line(pr.nthreads)>>
                 /\ pr.nthreads \in {0, 1} => pr.err = <<>>
           /\ MainProc(p) /\ pr.pc = "exited" /\ pr.exit.how = "return"
                 /\ pr.code \in ExitCodes \ {RESTART_EXIT_CODE} =>
                 ~InLog(pr, "check_threads") /\ pr.err = <<>>

\* two threads were listed, a daemon thread besides the main thread: one is
\* counted and nothing is written
C17_Witness ==
    \E p \in PIDs :
        /\ Hass(p) /\ proc[p].nthreads = 1
        /\ proc[p].threads = <<MainThread, [alive |-> TRUE, daemon |-> TRUE]>>
        /\ proc[p].err = <<>>
        /\ proc[p].pc = "idle"

\* C18: ensure_config_path run again on a directory it has bootstrapped:
\* when the last two calls of a process were ensure_config_path and the
\* first of them returned, the second returns as well, prints nothing, and
\* the configuration directory and deps are there as before.
C18_Idempotent ==
    \A p \in PIDs :
        LET pr == proc[p]
            l == pr.log
        IN /\ Hass(p) /\ Len(l) >= 2
           /\ l[Len(l)] = "ensure_config_path"
           /\ l[Len(l) - 1] = "ensure_config_path"
           => /\ cfgDir /\ libDir
              /\ pr.exit = NoExit
              /\ pr.out = <<>>
              /\ pr.pc \in {"idle"} \cup UnitFunctions

\* two calls in a row on the default directory have returned
C18_Witness ==
    \E p \in PIDs :
        /\ proc[p].log = <<"ensure_config_path", "ensure_config_path">>
        /\ proc[p].pc = "idle"
        /\ isDefault /\ cfgDir /\ libDir

\* C19: nothing deletes the PID file: a PID file that exists before a step
\* exists after it; and the step in which a run of main() that has written
\* the PID file ends (by a return, an exception of the runtime or a fault)
\* leaves the file as it is: present, and holding the PID the run recorded
\* when no other launch has written to it.
C19_PidFileKept ==
    [][/\ pidFile.exists => pidFile'.exists
       /\ \A p \in PIDs :
            /\ MainProc(p) /\ proc[p].pc \notin {"exited", "write_pid"}
            /\ proc'[p].pc = "exited"
            => /\ pidFile' = pidFile
               /\ InLog(proc'[p], "write_pid") =>
                    /\ pidFile'.exists
                    /\ launches = 1 => pidFile' = FileWith(Str(p))]_vars

\* the runtime raised in a run that had written its PID: the file names it
C19_Witness ==
    \E p \in PIDs :
        /\ MainProc(p) /\ proc[p].pc = "exited" /\ proc[p].exit.how = "exception"
        /\ InLog(proc[p], "runner.raise") /\ InLog(proc[p], "write_pid")
        /\ pidFile = FileWith(Str(p))

\* C21: check_pid has two outcomes, whatever the PID file holds: it returns,
\* or it prints the already-running message and exits with status 1.  No
\* call of check_pid ends the process in any other way.
C21_CheckPidTotal ==
    \A p \in PIDs :
        LET pr == proc[p] IN
        /\ Hass(p) /\ pr.log # <<>> /\ LastOf(pr.log) = "check_pid"
        /\ pr.pc = "exited"
        => /\ pr.exit = [how |-> "sys.exit", status |-> 1]
           /\ pr.out = <<"Fatal Error: Home Assistant is already running.">>

\* another instance of the program is alive besides p
OtherInstanceAlive(p) == \E q \in PIDs \ {p} : Live(q) /\ Hass(q)

\* C22: the probe of check_pid stops a launch only when another instance of
\* the program is alive: when none is, the launch that probes the PID it
\* read from the file gets past check_pid, without a message, on its way to
\* write_pid.
C22_OnlyLiveInstanceBlocks ==
    [][\A p \in PIDs :
          /\ MainProc(p)
          /\ proc[p].pc = "check_pid_probe" /\ proc'[p].pc # "check_pid_probe"
          /\ ~OtherInstanceAlive(p)
          => /\ proc'[p].pc = "write_pid"
             /\ proc'[p].out = proc[p].out]_vars

\* C23: a run of main() that was given --script ends by returning what
\* scripts.run returned, and enters none of ensure_config_path, check_pid,
\* daemonize, write_pid, the fault scope or the runtime.
C23_ScriptMode ==
    \A p \in PIDs :
        LET pr == proc[p] IN
        MainProc(p) /\ pr.script =>
            /\ \A i \in 1..Len(pr.log) :
                 pr.log[i] \in {"validate_python", "get_arguments", "scripts.run"}
            /\ pr.nrun = 0 /\ pr.fh = "none" /\ ~pr.conf.made
            /\ pr.pc \in {"scripts_run", "exited"}
            /\ pr.pc = "exited" =>
                 /\ LastOf(pr.log) = "scripts.run"
                 /\ pr.exit.how = "return"
                 /\ pr.ret \in ScriptCodes /\ pr.exit.status = pr.ret

====
